---- MODULE Spec2Model ----
(***************************************************************************)
(* A model of SpreadsheetEvaluator.py: class SpreadsheetEval and main().    *)
(*                                                                         *)
(* Strings are sequences of one-character strings, so that the token       *)
(* classifiers (isCellReference, the numeral regular expression), float()  *)
(* and str() are computed character by character as the code does.         *)
(* A Python value held in the deque or in valMap is a record               *)
(*   [kind, n, d]  with kind "float" (the decimal n / 10^d, normalised),   *)
(*   "str" (only the empty string "" ever occurs), "tuple" and "method"    *)
(*   (the objects lines 139-140 build from queue.popleft).                 *)
(* Floats are exact decimals: binary rounding is not modelled.  The         *)
(* characters are the ASCII ones and SuperscriptTwo, which stands for the   *)
(* one character U+00B2: str.isdigit() accepts it, int() and \d do not.     *)
(***************************************************************************)
EXTENDS Integers, Sequences, FiniteSets, TLC

VARIABLES
    input,             \* the input file: rows of cells, a cell being its text split into tokens
    maxTokensPerCell,  \* self.maxTokensPerCell
    pc,                \* position of main(): "parse", "evaluate", "write", "done", "error"
    grid,              \* self.grid
    exprMap,           \* self.exprMap
    valMap,            \* self.valMap
    pos,               \* <<row, column>> of evaluate()'s two loops
    visiting,          \* the set passed down the evaluateDFS calls of one top-level request
    stack,             \* the active evaluateDFS calls, outermost first: [cell, i, queue]
    error,             \* the exception main() caught: what its message says
    errCtx,            \* where it was raised: the frame that raised it
    output,            \* the lines writeOutput wrote, or NotWritten
    runs,              \* how many calls of evaluate() have returned normally
    interp,            \* per cell with an expression: how often line 128 was reached for it
    colIndex,          \* getCellName: its argument colIndex
    rowIndex,          \* getCellName: its argument rowIndex
    index,             \* indexToColForm: its local index
    columnName,        \* indexToColForm: its local columnName
    cellName           \* getCellName: the name it returned

naming == <<colIndex, rowIndex, index, columnName, cellName>>

vars == <<input, maxTokensPerCell, pc, grid, exprMap, valMap, pos, visiting,
          stack, error, errCtx, output, runs, interp, naming>>

----------------------------------------------------------------------------
(* Bounds of the model *)

MaxCells == 2
MaxTotalTokens == 3
SmallTokenLimit == 2
FloatDigits == 3
MaxRuns == 2
MaxIndex == 730
MaxRowIndex == 10

----------------------------------------------------------------------------
(* Characters *)

Letters == <<"A","B","C","D","E","F","G","H","I","J","K","L","M",
             "N","O","P","Q","R","S","T","U","V","W","X","Y","Z">>

Digits == <<"0","1","2","3","4","5","6","7","8","9">>

isupper(ch) == \E k \in 1..26 : Letters[k] = ch

SuperscriptTwo == "U+00B2"

(* the characters \d matches and int() and float() read *)
isdecimal(ch) == \E k \in 1..10 : Digits[k] = ch

(* str.isdigit() on one character *)
isdigit(ch) == isdecimal(ch) \/ ch = SuperscriptTwo

DigitVal(ch) == (CHOOSE k \in 1..10 : Digits[k] = ch) - 1

allDigits(s) == \A k \in 1..Len(s) : isdecimal(s[k])

(* row.isdigit() for a non-empty row *)
rowIsDigit(row) == \A k \in 1..Len(row) : isdigit(row[k])

(* int(row) returns; it raises ValueError otherwise *)
intOk(row) == row # <<>> /\ allDigits(row)

RECURSIVE int(_)
int(s) == IF s = <<>> THEN 0 ELSE 10 * int(SubSeq(s, 1, Len(s) - 1)) + DigitVal(s[Len(s)])

RECURSIVE strInt(_)
strInt(n) == IF n < 10 THEN <<Digits[n + 1]>> ELSE strInt(n \div 10) \o <<Digits[(n % 10) + 1]>>

RECURSIVE Pow10(_)
Pow10(d) == IF d = 0 THEN 1 ELSE 10 * Pow10(d - 1)

----------------------------------------------------------------------------
(* Cell naming *)

(* line 76 *)
prepended(ix, name) == <<Letters[(ix % 26) + 1]>> \o name

(* line 77 *)
nextIndexPlain(ix) == IF ix < 26 THEN 0 - 1 ELSE ix \div 26

nextIndex(ix) == (ix \div 26) - 1

RECURSIVE colLoop(_, _)
colLoop(ix, name) ==
    IF ix >= 0
    THEN colLoop(nextIndex(ix), prepended(ix, name))
    ELSE name

indexToColForm(ix) == colLoop(ix, <<>>)

getCellName(col, row) == indexToColForm(col) \o strInt(row + 1)

RECURSIVE upperPrefix(_)
upperPrefix(op) ==
    IF op # <<>> /\ isupper(op[1]) THEN 1 + upperPrefix(Tail(op)) ELSE 0

isCellReference(op) ==
    LET colCount == upperPrefix(op)
        row == SubSeq(op, colCount + 1, Len(op))
    IN  /\ op # <<>>
        /\ colCount # 0
        /\ row # <<>>
        /\ rowIsDigit(row)
        /\ intOk(row)
        /\ int(row) > 0

(* isCellReference(op) does not return: int(row) raises ValueError at line 196 *)
refRaises(op) ==
    LET colCount == upperPrefix(op)
        row == SubSeq(op, colCount + 1, Len(op))
    IN  /\ op # <<>>
        /\ colCount # 0
        /\ row # <<>>
        /\ rowIsDigit(row)
        /\ ~intOk(row)

----------------------------------------------------------------------------
(* Python values *)

Float(n, d) == [kind |-> "float", n |-> n, d |-> d]
EmptyStr == [kind |-> "str", n |-> 0, d |-> 0]
PopleftTuple == [kind |-> "tuple", n |-> 0, d |-> 0]
PopleftMethod == [kind |-> "method", n |-> 0, d |-> 0]

RECURSIVE Norm(_, _)
Norm(n, d) == IF d > 0 /\ n % 10 = 0 THEN Norm(n \div 10, d - 1) ELSE Float(n, d)

Operators == {<<"+">>, <<"-">>, <<"*">>, <<"/">>}

isOperator(op) == op \in Operators

RECURSIVE digitPrefix(_)
digitPrefix(s) == IF s # <<>> /\ isdecimal(s[1]) THEN 1 + digitPrefix(Tail(s)) ELSE 0

unsigned(op) == IF op # <<>> /\ op[1] \in {"+", "-"} THEN Tail(op) ELSE op

numeralMatch(op) ==
    LET s == unsigned(op)
        k == digitPrefix(s)
        rest == SubSeq(s, k + 1, Len(s))
    IN  IF rest = <<>> THEN TRUE
        ELSE /\ rest[1] = "."
             /\ Len(rest) >= 2
             /\ allDigits(Tail(rest))

floatOk(op) == \E k \in 1..Len(op) : isdecimal(op[k])

float(op) ==
    LET s == unsigned(op)
        k == digitPrefix(s)
        frac == IF k < Len(s) THEN SubSeq(s, k + 2, Len(s)) ELSE <<>>
        mag == int(SubSeq(s, 1, k) \o frac)
        sign == IF op # <<>> /\ op[1] = "-" THEN -1 ELSE 1
    IN  Norm(sign * mag, Len(frac))

abs(n) == IF n < 0 THEN -n ELSE n

RECURSIVE padLeft(_, _)
padLeft(s, w) == IF Len(s) >= w THEN s ELSE padLeft(<<"0">> \o s, w)

str(v) ==
    IF v.kind = "str" THEN <<>>
    ELSE LET p == Pow10(v.d)
             whole == strInt(abs(v.n) \div p)
             frac == IF v.d = 0 THEN <<"0">> ELSE padLeft(strInt(abs(v.n) % p), v.d)
         IN  (IF v.n < 0 THEN <<"-">> ELSE <<>>) \o whole \o <<".">> \o frac


quotient(a, b) ==
    LET num == abs(a.n) * Pow10(b.d + FloatDigits)
        den == abs(b.n) * Pow10(a.d)
        sign == IF (a.n < 0) = (b.n < 0) THEN 1 ELSE -1
    IN  Norm(sign * (num \div den), FloatDigits)

sum(a, b) ==
    LET d == IF a.d > b.d THEN a.d ELSE b.d
    IN  Norm(a.n * Pow10(d - a.d) + b.n * Pow10(d - b.d), d)

negate(b) == Float(-b.n, b.d)

product(a, b) == Norm(a.n * b.n, a.d + b.d)

Returned(v) == [ok |-> TRUE, val |-> v, kind |-> "none"]
Thrown(kind) == [ok |-> FALSE, val |-> EmptyStr, kind |-> kind]

bothFloat(a, b) == a.kind = "float" /\ b.kind = "float"

calculateBlankAsZero(a, b, operator) == Returned(Float(0, 0))

calculate(a, b, operator) ==
    CASE operator = <<"+">> ->
            IF bothFloat(a, b) THEN Returned(sum(a, b))
            ELSE IF a.kind = b.kind /\ a.kind \in {"str", "tuple"} THEN Returned(a)
            ELSE Thrown("TypeError")
      [] operator = <<"-">> ->
            IF bothFloat(a, b) THEN Returned(sum(a, negate(b))) ELSE Thrown("TypeError")
      [] operator = <<"*">> ->
            IF bothFloat(a, b) THEN Returned(product(a, b)) ELSE Thrown("TypeError")
      [] operator = <<"/">> ->
            IF b.kind = "float" /\ b.n = 0 THEN Thrown("DivisionByZero")
            ELSE IF bothFloat(a, b) THEN Returned(quotient(a, b))
            ELSE Thrown("TypeError")
      [] OTHER -> Thrown("UnboundLocalError")

----------------------------------------------------------------------------
(* Input files *)

maxTokensDefault == 100
maxCells == 500000

Alphabet == {<<"1">>, <<"/">>, <<"&">>, <<"A","1">>, <<"A","2">>, <<"B","1">>}

RECURSIVE SumTo(_, _)
SumTo(f, k) == IF k = 0 THEN 0 ELSE f[k] + SumTo(f, k - 1)

Total(f) == SumTo(f, Len(f))

RowLengths ==
    {rl \in UNION {[1..r -> 1..MaxCells] : r \in 1..MaxCells} : Total(rl) <= MaxCells}

TokenCounts(ncells) == {tc \in [1..ncells -> 0..MaxTotalTokens] : Total(tc) <= MaxTotalTokens}

File(rl, tc, toks) ==
    [r \in 1..Len(rl) |->
        [c \in 1..rl[r] |->
            LET cellIx == SumTo(rl, r - 1) + c
                from == SumTo(tc, cellIx - 1)
            IN  SubSeq(toks, from + 1, from + tc[cellIx])]]

(* The files of at most MaxCells cells and MaxTotalTokens tokens over Alphabet *)
IsGenerated(file) ==
    \E rl \in RowLengths :
        \E tc \in TokenCounts(Total(rl)) :
            \E toks \in [1..Total(tc) -> Alphabet] : file = File(rl, tc, toks)

(* The input files of testSpreadsheetEvaluator.py (outputTests, errorTests; its
   500-token file is covered by the generated files under the small limit),
   the cell `3 2 -`, the empty file, a cell whose token is A followed by
   the character U+00B2, the cell `1 2 3 + *`, a chain A1 -> B1 -> B2 <- A2, and
   the diamond A1 -> {B1, A2} -> B2. *)
Scenarios ==
    { << << <<<<"2">>, <<"3">>, <<"+">>>>, <<<<"6">>, <<"2">>, <<"/">>>> >>,
         << <<<<"8">>, <<"8">>, <<"*">>>> >> >>,
      << << <<<<"1">>>>, <<<<"2">>>> >>,
         << <<<<"A","1">>, <<"B","1">>, <<"+">>>>, <<<<"A","2">>, <<"B","1">>, <<"*">>>> >> >>,
      << << <<>>, <<<<"1",".","0">>>> >>,
         << <<<<"2">>>>, <<>> >> >>,
      << << <<>>, <<>> >>,
         << <<<<"A","1">>>> >> >>,
      << << <<<<"-","3">>, <<"-","2">>, <<"+">>>>, <<<<"5",".","5">>, <<"2">>, <<"*">>>> >>,
         << <<<<"8",".","7","8">>, <<".","1">>, <<"*">>>> >> >>,
      << << <<<<"2">>>>, <<>> >>,
         << <<<<"A","1">>, <<"3">>, <<"+">>>> >> >>,
      << << <<<<"1">>, <<"0">>, <<"/">>>> >> >>,
      << << <<<<"A","2">>>> >>,
         << <<<<"A","1">>>> >> >>,
      << << <<<<"2">>, <<"3">>, <<"&">>, <<"+">>>> >> >>,
      << << <<<<"-">>>> >> >>,
      << << <<<<"3">>, <<"2">>, <<"-">>>> >> >>,
      <<>>,
      << << <<<<"A", SuperscriptTwo>>>> >> >>,
      << << <<<<"1">>, <<"2">>, <<"3">>, <<"+">>, <<"*">>>> >> >>,
      << << <<<<"B","1">>>>, <<<<"B","2">>>> >>,
         << <<<<"B","2">>>>, <<<<"1">>>> >> >>,
      << << <<<<"B","1">>, <<"A","2">>>>, <<<<"B","2">>>> >>,
         << <<<<"B","2">>>>, <<<<"1">>>> >> >> }

TokenLimits == {SmallTokenLimit, maxTokensDefault}

----------------------------------------------------------------------------
(* parseInput *)

cellCount(file) == Total([r \in 1..Len(file) |-> Len(file[r])])

gridOf(file) == [r \in 1..Len(file) |-> [c \in 1..Len(file[r]) |-> getCellName(c - 1, r - 1)]]

Positions(file) == {rc \in (1..Len(file)) \X (1..cellCount(file)) : rc[2] <= Len(file[rc[1]])}

cellsWhere(file, blank) ==
    {getCellName(rc[2] - 1, rc[1] - 1) :
        rc \in {q \in Positions(file) : (file[q[1]][q[2]] = <<>>) = blank}}

textOf(file, cell) ==
    LET rc == CHOOSE q \in Positions(file) : getCellName(q[2] - 1, q[1] - 1) = cell
    IN  file[rc[1]][rc[2]]

parsedExprMap(file) == [cell \in cellsWhere(file, FALSE) |-> textOf(file, cell)]

parsedValMapZero(file) == [cell \in cellsWhere(file, TRUE) |-> Float(0, 0)]

parsedValMapNone(file) == <<>>

parsedValMap(file) == [cell \in cellsWhere(file, TRUE) |-> EmptyStr]

----------------------------------------------------------------------------
(* Exceptions *)

NoError == [kind |-> "none", cell |-> <<>>, token |-> <<>>]
NoCtx == [at |-> <<>>, idx |-> 0, queue |-> <<>>, path |-> <<>>, tok |-> <<>>]
NotWritten == << <<"not written">> >>

Exc(kind, cell, token) == [kind |-> kind, cell |-> cell, token |-> token]

CircularReference(cell) == Exc("CircularReference", cell, <<>>)
TooManyTokens(cell) == Exc("TooManyTokens", cell, <<>>)
InsufficientOperands(op, cell) == Exc("InsufficientOperands", cell, op)
InvalidNumber(op, cell) == Exc("InvalidNumber", cell, op)
InvalidToken(op, cell) == Exc("InvalidToken", cell, op)
InvalidExpression(cell) == Exc("InvalidExpression", cell, <<>>)

(* main()'s except clause: the exception leaves every evaluateDFS call and
   evaluate(); main prints it and returns. *)
exceptContinue(stage) == stage

exceptTarget(stage) == "error"

Top == stack[Len(stack)]

pathOf(stk) == [k \in 1..Len(stk) |-> stk[k].cell]

Raise(exc, tok) ==
    /\ error' = exc
    /\ errCtx' = IF stack = <<>> THEN NoCtx
                 ELSE [at |-> Top.cell, idx |-> Top.i - 1, queue |-> Top.queue,
                       path |-> pathOf(stack), tok |-> tok]
    /\ pc' = exceptTarget(pc)
    /\ stack' = <<>>

----------------------------------------------------------------------------
(* The state after construction: __init__, with the input file chosen *)

Init ==
    /\ \/ IsGenerated(input)
       \/ input \in Scenarios
    /\ maxTokensPerCell \in TokenLimits
    /\ pc = "parse"
    /\ grid = <<>>
    /\ exprMap = <<>>
    /\ valMap = <<>>
    /\ pos = <<1, 1>>
    /\ visiting = {}
    /\ stack = <<>>
    /\ error = NoError
    /\ errCtx = NoCtx
    /\ output = NotWritten
    /\ runs = 0
    /\ interp = <<>>
    /\ colIndex = 0 /\ rowIndex = 0 /\ index = 0 /\ columnName = <<>> /\ cellName = <<>>

ParseInput ==
    /\ pc = "parse"
    /\ IF cellCount(input) > maxCells
       THEN /\ Raise(Exc("TooManyCells", <<>>, <<>>), <<>>)
            /\ UNCHANGED <<grid, exprMap, valMap, interp>>
       ELSE /\ grid' = gridOf(input)
            /\ exprMap' = parsedExprMap(input)
            /\ valMap' = parsedValMap(input)
            /\ interp' = [cell \in DOMAIN parsedExprMap(input) |-> 0]
            /\ pc' = "evaluate"
            /\ UNCHANGED <<error, errCtx, stack>>
    /\ UNCHANGED <<naming, runs, input, maxTokensPerCell, pos, visiting, output>>

----------------------------------------------------------------------------
(* evaluate: the two loops over self.grid *)

inGrid(p) == p[1] <= Len(grid)

cellAt(p) == grid[p[1]][p[2]]

nextPos(p) == IF p[2] < Len(grid[p[1]]) THEN <<p[1], p[2] + 1>> ELSE <<p[1] + 1, 1>>

(* evaluateDFS, its three early returns *)
memoHitNever(vm, cell) == FALSE

memoHitBlank(vm, cell) == cell \in DOMAIN vm /\ vm[cell] = EmptyStr

memoHit(vm, cell) == cell \in DOMAIN vm

onPathNever(vis, cell) == FALSE

onPathAny(vis, cell) == vis # {}

onPath(vis, cell) == cell \in vis

isBlank(em, cell) == cell \notin DOMAIN em

(* a call of evaluateDFS past line 128: its cell, the position of its loop, its
   deque, and res once lines 157-158 have run *)
Frame(cell) == [cell |-> cell, i |-> 1, queue |-> <<>>, res |-> EmptyStr, done |-> FALSE]

enteredNever(vis, cell) == vis

(* line 128 *)
entered(vis, cell) == vis \cup {cell}

leftNever(vis, cell) == vis

(* line 159 *)
left(vis, cell) == vis \ {cell}

started(n, cell) == [n EXCEPT ![cell] = @ + 1]

(* queue.append(val) and the for loop's step to the next token *)
pushed(f, val) == [f EXCEPT !.queue = Append(@, val), !.i = @ + 1]

replaceTop(stk, f) == [stk EXCEPT ![Len(stk)] = f]

tooLongInclusive(ops, limit) == Len(ops) >= limit

tooLong(ops, limit) == Len(ops) > limit

insufficientNone(queue) == Len(queue) < 1

insufficient(queue) == Len(queue) < 2

unbalancedEmpty(queue) == Len(queue) < 1

unbalanced(queue) == Len(queue) # 1

popRight(queue) == queue[Len(queue)]

recorded(vm, cell, res) == [c \in DOMAIN vm \cup {cell} |-> IF c = cell THEN res ELSE vm[c]]

(* evaluate() reaches a cell that has an expression and already a value:
   evaluateDFS(cell, set()) returns at line 120 *)
TopMemo ==
    /\ pc = "evaluate" /\ stack = <<>> /\ inGrid(pos)
    /\ cellAt(pos) \in DOMAIN exprMap
    /\ memoHit(valMap, cellAt(pos))
    /\ visiting' = {}
    /\ pos' = nextPos(pos)
    /\ UNCHANGED <<naming, runs, interp, input, maxTokensPerCell, pc, grid, exprMap, valMap, stack, error,
                   errCtx, output>>

(* evaluate() calls evaluateDFS(cell, set()) and the call starts to interpret *)
TopEnter ==
    /\ pc = "evaluate" /\ stack = <<>> /\ inGrid(pos)
    /\ cellAt(pos) \in DOMAIN exprMap
    /\ ~memoHit(valMap, cellAt(pos))
    /\ visiting' = entered({}, cellAt(pos))
    /\ stack' = <<Frame(cellAt(pos))>>
    /\ interp' = started(interp, cellAt(pos))
    /\ UNCHANGED <<naming, runs, input, maxTokensPerCell, pc, grid, exprMap, valMap, pos, error,
                   errCtx, output>>

(* line 100: a cell without an expression is passed over *)
TopSkip ==
    /\ pc = "evaluate" /\ stack = <<>> /\ inGrid(pos)
    /\ cellAt(pos) \notin DOMAIN exprMap
    /\ pos' = nextPos(pos)
    /\ UNCHANGED <<naming, runs, interp, input, maxTokensPerCell, pc, grid, exprMap, valMap, visiting, stack,
                   error, errCtx, output>>

(* evaluate() returns; main goes on to writeOutput *)
TopDone ==
    /\ pc = "evaluate" /\ stack = <<>> /\ ~inGrid(pos)
    /\ pc' = "write"
    /\ runs' = runs + 1
    /\ UNCHANGED <<naming, interp, input, maxTokensPerCell, grid, exprMap, valMap, pos,
                   visiting, stack, error, errCtx, output>>

(* evaluate() is called once more on the evaluated instance *)
EvaluateAgain ==
    /\ pc \in {"write", "done"}
    /\ runs < MaxRuns
    /\ pc' = "evaluate"
    /\ pos' = <<1, 1>>
    /\ UNCHANGED <<naming, runs, interp, input, maxTokensPerCell, grid, exprMap, valMap,
                   visiting, stack, error, errCtx, output>>

----------------------------------------------------------------------------
(* evaluateDFS: one iteration of `for op in ops` in the innermost call *)

Interpreting ==
    /\ pc = "evaluate" /\ stack # <<>>
    /\ Top.i <= Len(exprMap[Top.cell])

Op == exprMap[Top.cell][Top.i]

TooLong ==
    /\ Interpreting
    /\ tooLong(exprMap[Top.cell], maxTokensPerCell)
    /\ Raise(TooManyTokens(Top.cell), Op)
    /\ UNCHANGED <<naming, runs, interp, input, maxTokensPerCell, grid, exprMap, valMap, pos, visiting, output>>

Fits == Interpreting /\ ~tooLong(exprMap[Top.cell], maxTokensPerCell)

OpInsufficient ==
    /\ Fits /\ isOperator(Op)
    /\ insufficient(Top.queue)
    /\ Raise(InsufficientOperands(Op, Top.cell), Op)
    /\ UNCHANGED <<naming, runs, interp, input, maxTokensPerCell, grid, exprMap, valMap, pos, visiting, output>>

(* lines 139-142: a is the one-element tuple (queue.popleft,), b the bound
   method queue.popleft; neither is called, so nothing leaves the deque *)
OpCalculate ==
    /\ Fits /\ isOperator(Op)
    /\ ~insufficient(Top.queue)
    /\ LET a == PopleftTuple
           b == PopleftMethod
           res == calculate(a, b, Op)
       IN  IF res.ok
           THEN /\ stack' = replaceTop(stack, pushed(Top, res.val))
                /\ UNCHANGED <<pc, error, errCtx>>
           ELSE Raise(Exc(res.kind, <<>>, <<>>), Op)
    /\ UNCHANGED <<naming, runs, interp, input, maxTokensPerCell, grid, exprMap, valMap, pos, visiting, output>>

(* line 143: isCellReference(op) raises inside int() *)
RefValueError ==
    /\ Fits /\ ~isOperator(Op)
    /\ refRaises(Op)
    /\ Raise(Exc("ValueError", <<>>, <<>>), Op)
    /\ UNCHANGED <<naming, runs, interp, input, maxTokensPerCell, grid, exprMap, valMap, pos, visiting, output>>

IsRef == Fits /\ ~isOperator(Op) /\ ~refRaises(Op) /\ isCellReference(Op)

NotRef == Fits /\ ~isOperator(Op) /\ ~refRaises(Op) /\ ~isCellReference(Op)

RefMemo ==
    /\ IsRef
    /\ memoHit(valMap, Op)
    /\ stack' = replaceTop(stack, pushed(Top, valMap[Op]))
    /\ UNCHANGED <<naming, runs, interp, input, maxTokensPerCell, pc, grid, exprMap, valMap, pos, visiting,
                   error, errCtx, output>>

RefCircular ==
    /\ IsRef
    /\ ~memoHit(valMap, Op)
    /\ onPath(visiting, Op)
    /\ Raise(CircularReference(Op), Op)
    /\ UNCHANGED <<naming, runs, interp, input, maxTokensPerCell, grid, exprMap, valMap, pos, visiting, output>>

RefBlank ==
    /\ IsRef
    /\ ~memoHit(valMap, Op)
    /\ ~onPath(visiting, Op)
    /\ isBlank(exprMap, Op)
    /\ stack' = replaceTop(stack, pushed(Top, EmptyStr))
    /\ UNCHANGED <<naming, runs, interp, input, maxTokensPerCell, pc, grid, exprMap, valMap, pos, visiting,
                   error, errCtx, output>>

RefEnter ==
    /\ IsRef
    /\ ~memoHit(valMap, Op)
    /\ ~onPath(visiting, Op)
    /\ ~isBlank(exprMap, Op)
    /\ visiting' = entered(visiting, Op)
    /\ stack' = Append(stack, Frame(Op))
    /\ interp' = started(interp, Op)
    /\ UNCHANGED <<naming, runs, input, maxTokensPerCell, pc, grid, exprMap, valMap, pos, error,
                   errCtx, output>>

NumPush ==
    /\ NotRef
    /\ numeralMatch(Op)
    /\ IF floatOk(Op)
       THEN /\ stack' = replaceTop(stack, pushed(Top, float(Op)))
            /\ UNCHANGED <<pc, error, errCtx>>
       ELSE Raise(InvalidNumber(Op, Top.cell), Op)
    /\ UNCHANGED <<naming, runs, interp, input, maxTokensPerCell, grid, exprMap, valMap, pos, visiting, output>>

InvalidTok ==
    /\ NotRef
    /\ ~numeralMatch(Op)
    /\ Raise(InvalidToken(Op, Top.cell), Op)
    /\ UNCHANGED <<naming, runs, interp, input, maxTokensPerCell, grid, exprMap, valMap, pos, visiting, output>>

----------------------------------------------------------------------------
(* evaluateDFS: after the loop, lines 154-160 *)

Flushing ==
    /\ pc = "evaluate" /\ stack # <<>>
    /\ Top.i > Len(exprMap[Top.cell])
    /\ ~Top.done

FinishBad ==
    /\ Flushing
    /\ unbalanced(Top.queue)
    /\ Raise(InvalidExpression(Top.cell), <<>>)
    /\ UNCHANGED <<naming, runs, interp, input, maxTokensPerCell, grid, exprMap, valMap, pos, visiting, output>>

(* lines 157-158: res = queue.pop(); self.valMap[cell] = res *)
FinishOk ==
    /\ Flushing
    /\ ~unbalanced(Top.queue)
    /\ LET res == popRight(Top.queue)
       IN  /\ valMap' = recorded(valMap, Top.cell, res)
           /\ stack' = replaceTop(stack, [Top EXCEPT !.queue = SubSeq(@, 1, Len(@) - 1),
                                                      !.res = res, !.done = TRUE])
    /\ UNCHANGED <<naming, runs, interp, input, maxTokensPerCell, pc, grid, exprMap, pos,
                   visiting, error, errCtx, output>>

(* lines 159-160: visiting.remove(cell); return res.  The value goes back to
   the caller: the token loop of the calling evaluateDFS (line 145), or
   evaluate(), which drops it and goes to the next cell *)
Return ==
    /\ pc = "evaluate" /\ stack # <<>>
    /\ Top.done
    /\ LET callers == SubSeq(stack, 1, Len(stack) - 1)
       IN  /\ visiting' = left(visiting, Top.cell)
           /\ IF callers = <<>>
              THEN /\ stack' = <<>>
                   /\ pos' = nextPos(pos)
              ELSE /\ stack' = replaceTop(callers, pushed(callers[Len(callers)], Top.res))
                   /\ pos' = pos
    /\ UNCHANGED <<naming, runs, interp, input, maxTokensPerCell, pc, grid, exprMap, valMap,
                   error, errCtx, output>>

----------------------------------------------------------------------------
(* writeOutput *)

RECURSIVE join(_)
join(cells) ==
    IF Len(cells) = 0 THEN <<>>
    ELSE IF Len(cells) = 1 THEN cells[1]
    ELSE cells[1] \o <<",">> \o join(Tail(cells))

line(vm, row) == join([c \in 1..Len(row) |-> str(vm[row[c]])]) \o <<"\n">>

complete(vm, row) == \A c \in 1..Len(row) : row[c] \in DOMAIN vm

RECURSIVE written(_, _, _)
written(vm, g, r) ==
    IF r > Len(g) \/ ~complete(vm, g[r]) THEN <<>>
    ELSE <<line(vm, g[r])>> \o written(vm, g, r + 1)

WriteOutput ==
    /\ pc = "write"
    /\ output' = written(valMap, grid, 1)
    /\ IF \A r \in 1..Len(grid) : complete(valMap, grid[r])
       THEN /\ pc' = "done"
            /\ UNCHANGED <<error, errCtx, stack>>
       ELSE Raise(Exc("KeyError", <<>>, <<>>), <<>>)
    /\ UNCHANGED <<naming, runs, interp, input, maxTokensPerCell, grid, exprMap, valMap, pos, visiting>>

----------------------------------------------------------------------------

Next ==
    \/ ParseInput
    \/ TopMemo \/ TopEnter \/ TopSkip \/ TopDone \/ EvaluateAgain
    \/ TooLong \/ OpInsufficient \/ OpCalculate
    \/ RefValueError
    \/ RefMemo \/ RefCircular \/ RefBlank \/ RefEnter
    \/ NumPush \/ InvalidTok
    \/ FinishBad \/ FinishOk \/ Return
    \/ WriteOutput

Spec == Init /\ [][Next]_vars

(* the interpreter is one thread that runs until main returns *)
FairSpec == Spec /\ WF_vars(Next)

----------------------------------------------------------------------------
(* getCellName and indexToColForm, statement by statement *)

evaluator == <<input, maxTokensPerCell, grid, exprMap, valMap, pos, visiting, stack,
               error, errCtx, output, runs, interp>>

(* getCellName(colIndex, rowIndex) has called indexToColForm(colIndex), which
   is at line 73 *)
NamingInit ==
    /\ colIndex \in 0..MaxIndex
    /\ rowIndex \in 0..MaxRowIndex
    /\ index = colIndex
    /\ columnName = <<>>
    /\ cellName = <<>>
    /\ pc = "naming"
    /\ input = <<>> /\ maxTokensPerCell = maxTokensDefault
    /\ grid = <<>> /\ exprMap = <<>> /\ valMap = <<>>
    /\ pos = <<1, 1>> /\ visiting = {} /\ stack = <<>>
    /\ error = NoError /\ errCtx = NoCtx /\ output = NotWritten
    /\ runs = 0 /\ interp = <<>>

(* lines 75-77: one iteration of the while loop *)
ColStep ==
    /\ pc = "naming"
    /\ index >= 0
    /\ columnName' = prepended(index, columnName)
    /\ index' = nextIndex(index)
    /\ UNCHANGED <<pc, colIndex, rowIndex, cellName, evaluator>>

(* lines 75, 79: the loop ends and columnName is returned *)
ColReturn ==
    /\ pc = "naming"
    /\ ~(index >= 0)
    /\ pc' = "named"
    /\ UNCHANGED <<naming, evaluator>>

(* line 88 *)
NameCell ==
    /\ pc = "named"
    /\ cellName' = columnName \o strInt(rowIndex + 1)
    /\ pc' = "cell"
    /\ UNCHANGED <<colIndex, rowIndex, index, columnName, evaluator>>

NamingNext == ColStep \/ ColReturn \/ NameCell

(* the call runs to its end: nothing else is scheduled *)
NamingSpec == NamingInit /\ [][NamingNext]_vars /\ WF_vars(NamingNext)

----------------------------------------------------------------------------
(* Properties *)

Failed == pc = "error"

isNumeral(op) == ~isOperator(op) /\ ~refRaises(op) /\ ~isCellReference(op)
                 /\ numeralMatch(op) /\ floatOk(op)

(* a cell `a b OP` of two numerals and an operator, within the token limit *)
IsBinaryCell(c) ==
    LET ops == exprMap[c]
    IN  /\ Len(ops) = 3
        /\ Len(ops) <= maxTokensPerCell
        /\ isNumeral(ops[1]) /\ isNumeral(ops[2]) /\ isOperator(ops[3])
        /\ (ops[3] = <<"/">> => float(ops[2]).n # 0)

(* C1: a cell `a b OP` (b # 0 for /) is resolved without an error and its
   value, once recorded, is a OP b with the first-pushed operand on the left. *)
C1_OperandOrder ==
    \A c \in DOMAIN exprMap :
        IsBinaryCell(c) =>
            /\ errCtx.at # c
            /\ c \in DOMAIN valMap =>
                 valMap[c] = calculate(float(exprMap[c][1]), float(exprMap[c][2]),
                                       exprMap[c][3]).val

isZero(v) == v.kind = "float" /\ v.n = 0

(* C2: when the run failed at a `/` token with two or more values on the
   stack, the last pushed being zero, the error is DivisionByZero and the cell
   has no value. *)
C2_DivisionByZero ==
    (/\ Failed
     /\ errCtx.tok = <<"/">>
     /\ Len(errCtx.queue) >= 2
     /\ isZero(errCtx.queue[Len(errCtx.queue)]))
    => /\ error.kind = "DivisionByZero"
       /\ errCtx.at \notin DOMAIN valMap

(* The reference graph of the expression map *)
refsOf(c) == {exprMap[c][k] : k \in 1..Len(exprMap[c])} \cap DOMAIN exprMap

RECURSIVE Closure(_)
Closure(S) ==
    LET T == S \cup UNION {refsOf(c) : c \in S}
    IN  IF T = S THEN S ELSE Closure(T)

OnCycle(c) == c \in DOMAIN exprMap /\ c \in Closure(refsOf(c))

HasCycle == \E c \in DOMAIN exprMap : OnCycle(c)

Range(f) == {f[k] : k \in DOMAIN f}

(* C3 as stated: on a grid with a reference cycle the run never completes and
   fails with a CircularReference error naming a cell of the active path. *)
C3_CycleAlwaysReported ==
    HasCycle =>
        /\ pc \notin {"write", "done"}
        /\ Failed => /\ error.kind = "CircularReference"
                     /\ error.cell \in Range(errCtx.path)

(* every expression is one token, a numeral or a reference *)
PlainCells ==
    /\ maxTokensPerCell >= 1
    /\ \A c \in DOMAIN exprMap :
          /\ Len(exprMap[c]) = 1
          /\ isNumeral(exprMap[c][1]) \/ (isCellReference(exprMap[c][1]) /\ ~refRaises(exprMap[c][1]))

CycleTest == << << <<<<"A","2">>>> >>, << <<<<"A","1">>>> >> >>

(* C3 (amended): on a grid with a reference cycle the run never completes
   successfully; no cell is ever twice on the active path; a CircularReference
   error names the referenced cell, which is on the active path and on a cycle;
   it is the error of the run whenever every expression is a single numeral or
   reference, as for A1 = `A2`, A2 = `A1`, which fails at A1. *)
C3_CycleDetected ==
    /\ HasCycle => pc \notin {"write", "done"}
    /\ \A j, k \in 1..Len(stack) : j # k => stack[j].cell # stack[k].cell
    /\ error.kind = "CircularReference" =>
          /\ error.cell = errCtx.tok
          /\ error.cell \in Range(errCtx.path)
          /\ error.cell \in visiting
          /\ OnCycle(error.cell)
    /\ (Failed /\ PlainCells) => error.kind = "CircularReference"
    /\ (Failed /\ input = CycleTest) => error = CircularReference(<<"A","1">>)

(* a cycle of two cells was detected *)
C3_Witness ==
    /\ Failed
    /\ error.kind = "CircularReference"
    /\ Len(errCtx.path) = 2
    /\ error.cell = errCtx.path[1]

(* the only token of c refers to a cell without an expression *)
IsBlankRefCell(c) ==
    /\ maxTokensPerCell >= 1
    /\ Len(exprMap[c]) = 1
    /\ ~isOperator(exprMap[c][1]) /\ ~refRaises(exprMap[c][1])
    /\ isCellReference(exprMap[c][1])
    /\ exprMap[c][1] \notin DOMAIN exprMap

RECURSIVE split(_, _)
split(s, cur) ==
    IF s = <<>> THEN <<cur>>
    ELSE IF s[1] = "," THEN <<cur>> \o split(Tail(s), <<>>)
    ELSE split(Tail(s), Append(cur, s[1]))

(* the texts between the commas of a written line *)
fields(ln) == split(SubSeq(ln, 1, Len(ln) - 1), <<>>)

(* C4: a cell whose only token refers to a cell without an expression is
   resolved without an error, its value is the empty value and the writer
   writes the empty string for it. *)
C4_BlankReference ==
    \A c \in DOMAIN exprMap :
        IsBlankRefCell(c) =>
            /\ errCtx.at # c
            /\ c \in DOMAIN valMap => valMap[c] = EmptyStr
            /\ pc = "done" =>
                 \A r \in 1..Len(grid) : \A k \in 1..Len(grid[r]) :
                     grid[r][k] = c => fields(output[r])[k] = <<>>

(* the run is done and a cell referred to a blank cell of the grid *)
C4_Witness ==
    /\ pc = "done"
    /\ \E c \in DOMAIN exprMap :
          /\ IsBlankRefCell(c)
          /\ exprMap[c][1] \in Range(grid[1])

(* C5: a binary operator reached with fewer than two values on the stack
   raises InsufficientOperands naming the operator and the cell, and the cell
   gets no value. *)
C5_InsufficientOperands ==
    [][(Fits /\ Op \in {<<"+">>, <<"-">>, <<"*">>, <<"/">>} /\ Len(Top.queue) < 2) =>
          /\ pc' = "error"
          /\ error' = InsufficientOperands(Op, Top.cell)
          /\ valMap' = valMap
          /\ Top.cell \notin DOMAIN valMap']_vars

(* an operator found exactly one value on the stack *)
C5_Witness ==
    /\ Failed
    /\ error.kind = "InsufficientOperands"
    /\ Len(errCtx.queue) = 1

(* a cell reference: uppercase letters, then decimal digits of a positive number *)
IsReferenceToken(op) ==
    \E k \in 1..(Len(op) - 1) :
        /\ \A j \in 1..k : isupper(op[j])
        /\ \A j \in (k + 1)..Len(op) : isdecimal(op[j])
        /\ \E j \in (k + 1)..Len(op) : op[j] # "0"

(* a signed decimal numeral: an optional sign, digits, an optional point with digits *)
IsNumeralToken(op) ==
    LET s == IF op # <<>> /\ op[1] \in {"+", "-"} THEN Tail(op) ELSE op
    IN  \E k \in 0..Len(s) :
            /\ \A j \in 1..k : isdecimal(s[j])
            /\ k < Len(s) =>
                 /\ s[k + 1] = "."
                 /\ k + 1 < Len(s)
                 /\ \A j \in (k + 2)..Len(s) : isdecimal(s[j])

(* C6: when the run failed at a token that is no operator, no cell reference
   and no signed decimal numeral, in a cell within the token limit, the error
   is InvalidToken naming that token and the cell, whatever tokens follow. *)
C6_InvalidToken ==
    (/\ Failed
     /\ errCtx.at \in DOMAIN exprMap
     /\ Len(exprMap[errCtx.at]) <= maxTokensPerCell
     /\ errCtx.idx < Len(exprMap[errCtx.at])
     /\ errCtx.tok = exprMap[errCtx.at][errCtx.idx + 1]
     /\ errCtx.tok \notin {<<"+">>, <<"-">>, <<"*">>, <<"/">>}
     /\ ~IsReferenceToken(errCtx.tok)
     /\ ~IsNumeralToken(errCtx.tok))
    => error = InvalidToken(errCtx.tok, errCtx.at)

(* C7: a cell with more tokens than the limit fails with TooManyTokens before
   any of its tokens is interpreted (nothing pushed, no cell resolved, no value
   recorded), and TooManyTokens is raised for no other cell: a cell of exactly
   the limit is not rejected. *)
C7_TooManyTokens ==
    [][/\ (Interpreting /\ Len(exprMap[Top.cell]) > maxTokensPerCell) =>
            /\ Top.i = 1 /\ Top.queue = <<>>
            /\ pc' = "error"
            /\ error' = TooManyTokens(Top.cell)
            /\ valMap' = valMap /\ visiting' = visiting
       /\ (error'.kind = "TooManyTokens" /\ error.kind = "none") =>
            /\ Interpreting
            /\ Len(exprMap[Top.cell]) > maxTokensPerCell
       /\ (Interpreting /\ Len(exprMap[Top.cell]) = maxTokensPerCell) =>
            error'.kind # "TooManyTokens"]_vars

(* a cell one token over the limit, whose first token is a reference, was rejected *)
C7_Witness ==
    /\ Failed
    /\ error.kind = "TooManyTokens"
    /\ Len(exprMap[errCtx.at]) = maxTokensPerCell + 1
    /\ isCellReference(exprMap[errCtx.at][1])
    /\ errCtx.idx = 0 /\ errCtx.queue = <<>>

(* C8: an entry of the value map is never overwritten or removed, and a
   reference to a cell that has an entry pushes that entry without a call. *)
C8_MemoImmutable ==
    [][/\ \A c \in DOMAIN valMap : c \in DOMAIN valMap' /\ valMap'[c] = valMap[c]
       /\ (Fits /\ isCellReference(Op) /\ Op \in DOMAIN valMap) =>
            /\ Len(stack') = Len(stack)
            /\ stack'[Len(stack')].queue = Append(Top.queue, valMap[Op])
            /\ valMap' = valMap]_vars

(* the second reference of a cell to a computed cell got the recorded value *)
C8_Witness ==
    /\ Len(stack) = 1
    /\ Top.i = 3
    /\ exprMap[Top.cell][1] = exprMap[Top.cell][2]
    /\ exprMap[Top.cell][1] \in DOMAIN exprMap \cap DOMAIN valMap
    /\ Top.queue = <<valMap[exprMap[Top.cell][1]], valMap[exprMap[Top.cell][1]]>>

(* C9: once an error is raised the run is in its error state, with no call
   left, no output written and the value map as it was; nothing changes after. *)
C9_ErrorAborts ==
    [][/\ error'.kind # "none" =>
            /\ pc' = "error"
            /\ stack' = <<>>
            /\ output' = NotWritten
            /\ valMap' = valMap
       /\ error.kind # "none" => UNCHANGED vars]_vars

(* an error was raised in a nested evaluateDFS call *)
C9_Witness ==
    /\ Failed
    /\ Len(errCtx.path) = 2
    /\ output = NotWritten

(* C10: after the last token the cell gets a value only if the stack holds
   exactly one element, which is recorded; otherwise InvalidExpression names
   the cell and nothing is recorded.  No value is recorded at any other step
   of the evaluation. *)
C10_Flush ==
    [][/\ Flushing =>
            IF Len(Top.queue) = 1
            THEN /\ valMap' = [c \in DOMAIN valMap \cup {Top.cell} |->
                                  IF c = Top.cell THEN Top.queue[1] ELSE valMap[c]]
                 /\ error' = NoError
            ELSE /\ error' = InvalidExpression(Top.cell)
                 /\ pc' = "error"
                 /\ valMap' = valMap
       /\ (pc = "evaluate" /\ valMap' # valMap) => (Flushing /\ Len(Top.queue) = 1)]_vars

(* a cell whose tokens left two values was rejected *)
C10_Witness ==
    /\ Failed
    /\ error.kind = "InvalidExpression"
    /\ Len(errCtx.queue) = 2
    /\ errCtx.at \notin DOMAIN valMap

----------------------------------------------------------------------------
(* C11: once evaluate() has returned normally, calling it again changes
   nothing: no step of the later run alters the Value Map, starts a call that
   interprets tokens or raises an error, and writeOutput then writes the very
   lines it wrote before. *)
C11_Idempotent ==
    [][runs >= 1 =>
          /\ valMap' = valMap
          /\ stack' = <<>>
          /\ error' = NoError
          /\ (output # NotWritten => output' = output)]_vars

(* the second evaluate() has returned on a grid with a computed value whose
   output had been written after the first *)
C11_Witness ==
    /\ runs = 2 /\ pc = "write" /\ output # NotWritten
    /\ \E cell \in DOMAIN exprMap : valMap[cell].kind = "float"

----------------------------------------------------------------------------
(* the value of a label read as a bijective base-26 numeral, A = 1 .. Z = 26 *)
letterValue(ch) == CHOOSE k \in 1..26 : Letters[k] = ch

RECURSIVE labelValue(_)
labelValue(label) ==
    IF label = <<>> THEN 0
    ELSE 26 * labelValue(SubSeq(label, 1, Len(label) - 1)) + letterValue(label[Len(label)])

ColumnLabels == {indexToColForm(ix) : ix \in 0..MaxIndex}

CellNames == {getCellName(col, row) : col \in 0..MaxIndex, row \in 0..MaxRowIndex}

SpotLabels ==
    /\ indexToColForm(0) = <<"A">>
    /\ indexToColForm(25) = <<"Z">>
    /\ indexToColForm(26) = <<"A", "A">>
    /\ indexToColForm(27) = <<"A", "B">>
    /\ indexToColForm(51) = <<"A", "Z">>
    /\ indexToColForm(52) = <<"B", "A">>

Labelled ==
    pc \in {"named", "cell"} =>
        /\ columnName = indexToColForm(colIndex)
        /\ columnName # <<>>
        /\ \A k \in 1..Len(columnName) : isupper(columnName[k])
        /\ labelValue(columnName) = colIndex + 1
        /\ \A other \in 0..MaxIndex : other # colIndex => indexToColForm(other) # columnName

Named ==
    pc = "cell" =>
        /\ cellName = getCellName(colIndex, rowIndex)
        /\ upperPrefix(cellName) = Len(columnName)
        /\ SubSeq(cellName, 1, Len(columnName)) = columnName
        /\ int(SubSeq(cellName, Len(columnName) + 1, Len(cellName))) = rowIndex + 1

(* C12: the label of column index i is i + 1 written as a bijective base-26
   numeral over A..Z (0 is A, 25 is Z, 26 is AA, 27 is AB, 51 is AZ, 52 is BA);
   the loop that builds it lowers its index at every iteration and comes to
   an end; no two indices up to MaxIndex share a label and no two (column,
   row) pairs share a cell name. *)
C12_ColumnLabels ==
    /\ []( /\ SpotLabels
           /\ Cardinality(ColumnLabels) = MaxIndex + 1
           /\ Cardinality(CellNames) = (MaxIndex + 1) * (MaxRowIndex + 1)
           /\ Labelled
           /\ Named )
    /\ [][(pc = "naming" /\ index >= 0) => (index' < index /\ index' >= 0 - 1)]_vars
    /\ <>(pc = "cell")

(* the name of a cell under a three-letter column in a two-digit row was built *)
C12_Witness ==
    /\ pc = "cell"
    /\ Len(columnName) = 3
    /\ rowIndex >= 9

----------------------------------------------------------------------------
(* the two values most recently appended to a deque of at least two *)
lastTwo(queue) == {queue[Len(queue) - 1], queue[Len(queue)]}

(* C13: when the interpreter reaches an operator with the empty value among
   the two most recent values of the deque, that step raises an error, the run
   stops, and the cell being interpreted gets no Value Map entry; no number
   stands in for the empty value. *)
C13_EmptyOperand ==
    [][(Fits /\ isOperator(Op) /\ ~insufficient(Top.queue) /\ EmptyStr \in lastTwo(Top.queue)) =>
          /\ error'.kind # "none"
          /\ pc' = "error"
          /\ valMap' = valMap
          /\ Top.cell \notin DOMAIN valMap']_vars

(* an operator was met with the empty value of a blank cell among its operands *)
C13_Witness ==
    /\ Failed
    /\ isOperator(errCtx.tok)
    /\ Len(errCtx.queue) >= 2
    /\ EmptyStr \in lastTwo(errCtx.queue)
    /\ errCtx.at \notin DOMAIN valMap

----------------------------------------------------------------------------
(* C14 as stated: no cell of the Visiting Set has a Value Map entry, in any
   state of an evaluation. *)
C14_VisitingUnrecorded == visiting \cap DOMAIN valMap = {}

(* the innermost call has executed line 158 and not yet line 159 *)
Recording == pc = "evaluate" /\ stack # <<>> /\ Top.done

(* C14: the only cell that is ever in the Visiting Set together with a Value
   Map entry is the cell of the innermost call between the statement that
   records its value and the next one, which unmarks it; the entry is then
   the value just computed.  In every other state, the states after an error
   included, no cell of the Visiting Set has a Value Map entry. *)
C14_VisitingRecorded ==
    /\ visiting \cap DOMAIN valMap = IF Recording THEN {Top.cell} ELSE {}
    /\ Recording => valMap[Top.cell] = Top.res

(* a referenced cell has its value recorded and is still marked, below a
   caller that is marked and has no value *)
C14_Witness ==
    /\ Recording
    /\ Len(stack) >= 2
    /\ stack[1].cell \in visiting \ DOMAIN valMap

----------------------------------------------------------------------------
(* C15: an operator met with two or more numbers on the value stack, the
   divisor not zero, replaces the two most recent of them by the result of
   applying it to them, first pushed on the left, leaves the earlier values as
   they are, so that the stack is one shorter, and goes on to the next token
   without an error. *)
C15_StackDiscipline ==
    [][(/\ Fits /\ isOperator(Op) /\ ~insufficient(Top.queue)
        /\ bothFloat(Top.queue[Len(Top.queue) - 1], Top.queue[Len(Top.queue)])
        /\ ~(Op = <<"/">> /\ isZero(Top.queue[Len(Top.queue)]))) =>
          LET n == Len(Top.queue)
              res == calculate(Top.queue[n - 1], Top.queue[n], Op).val
          IN  /\ error' = NoError
              /\ Len(stack') = Len(stack)
              /\ stack'[Len(stack)].cell = Top.cell
              /\ stack'[Len(stack)].i = Top.i + 1
              /\ stack'[Len(stack)].queue = Append(SubSeq(Top.queue, 1, n - 2), res)]_vars

----------------------------------------------------------------------------
(* C16: no cell's expression is interpreted more than once, in a run or over
   the runs of an instance: a cell that has an expression and a value was
   interpreted exactly once, and no call that interprets tokens is open for a
   cell that has a value, apart from the innermost call that has just
   recorded it. *)
C16_InterpretedOnce ==
    /\ \A c \in DOMAIN interp : interp[c] <= 1
    /\ \A c \in DOMAIN interp : c \in DOMAIN valMap => interp[c] = 1
    /\ \A k \in 1..Len(stack) :
          stack[k].cell \in DOMAIN valMap => (k = Len(stack) /\ stack[k].done)

(* the run is over and a cell that two other cells refer to, one of them
   earlier in the traversal, was interpreted once *)
C16_Witness ==
    /\ pc = "done"
    /\ \E e \in DOMAIN exprMap :
          /\ Cardinality({c \in DOMAIN exprMap : e \in refsOf(c)}) >= 2
          /\ interp[e] = 1
          /\ grid[1][1] \in DOMAIN exprMap /\ e \in Closure(refsOf(grid[1][1]))

----------------------------------------------------------------------------
(* C17: as long as no error has been raised, the Visiting Set is the set of
   the cells of the open evaluateDFS calls that interpret tokens, each of them
   once on the path; it is empty whenever no such call is open, so when a
   top-level request has returned and when evaluate() has returned. *)
C17_VisitingIsPath ==
    error = NoError =>
        /\ visiting = Range(pathOf(stack))
        /\ Cardinality(visiting) = Len(stack)
        /\ stack = <<>> => visiting = {}

(* three nested calls are open, none has failed *)
C17_Witness ==
    /\ error = NoError
    /\ Len(stack) = 3
    /\ visiting = {stack[1].cell, stack[2].cell, stack[3].cell}
    /\ ~stack[3].done

----------------------------------------------------------------------------
(* C18: a CircularReference error names a cell that refers to itself through
   a chain of one or more references and was on the active path when it was
   met again; on a grid without such a cell the error is never raised, however
   often a cell is referred to. *)
C18_OnlyRealCycles ==
    /\ error.kind = "CircularReference" =>
          /\ OnCycle(error.cell)
          /\ error.cell \in Range(errCtx.path)
    /\ ~HasCycle => error.kind # "CircularReference"

(* a diamond: the first cell refers to two cells that refer to the same cell;
   both references were resolved and the run failed for another reason *)
C18_Witness ==
    /\ Failed /\ ~HasCycle
    /\ error.kind = "InvalidExpression"
    /\ errCtx.at = grid[1][1]
    /\ Len(errCtx.queue) = 2
    /\ \E c, d \in refsOf(grid[1][1]) :
          /\ c # d
          /\ refsOf(c) \cap refsOf(d) # {}

----------------------------------------------------------------------------
(* C19: every call of evaluate() comes to an end, by returning to main or by
   raising an error, whatever the grid; the calls of evaluateDFS never nest
   deeper than the number of cells that have an expression. *)
C19_Terminates ==
    /\ [](Len(stack) <= Cardinality(DOMAIN exprMap))
    /\ (pc = "evaluate") ~> (pc \in {"write", "error"})

(* evaluate() raised CircularReference on a grid with a reference cycle *)
C19_Witness ==
    /\ Failed /\ HasCycle
    /\ error.kind = "CircularReference"
    /\ Len(errCtx.path) >= 2

----------------------------------------------------------------------------
GridCells == UNION {Range(grid[r]) : r \in 1..Len(grid)}

(* C20: once evaluate() has returned, every cell of the grid has a Value Map
   entry, the empty value for a cell without an expression and the value its
   interpretation left for a cell with one; writeOutput then finds every cell
   it looks up and writes one line per row of the grid with one field per
   cell of the row, the text of that cell's value, in the grid's order. *)
C20_EveryCellHasValue ==
    /\ error.kind # "KeyError"
    /\ pc \in {"write", "done"} =>
          /\ GridCells = DOMAIN valMap
          /\ \A c \in GridCells \ DOMAIN exprMap : valMap[c] = EmptyStr
          /\ \A c \in DOMAIN exprMap : valMap[c].kind \in {"float", "str"} /\ interp[c] = 1
    /\ pc = "done" =>
          /\ Len(output) = Len(grid)
          /\ \A r \in 1..Len(grid) :
                /\ Len(fields(output[r])) = Len(grid[r])
                /\ \A k \in 1..Len(grid[r]) :
                      fields(output[r])[k] = str(valMap[grid[r][k]])

(* the output of a grid of two rows with a blank cell and a computed value
   was written *)
C20_Witness ==
    /\ pc = "done"
    /\ Len(grid) = 2
    /\ \E c \in GridCells : c \notin DOMAIN exprMap
    /\ \E c \in DOMAIN exprMap : valMap[c].kind = "float"

====
